---- MODULE Spec2Model ----
(***************************************************************************)
(* mt-wg-meshconf (src/main.rs): one invocation of the command line tool.  *)
(* The state is the csv file (the deserialized records), the parsed        *)
(* command line, the build's overflow behaviour, the position in main and  *)
(* the locals of the running command.  Blank lines of the generated text   *)
(* and the wall-clock time in the header comment are left out of the       *)
(* documents; every other statement main pushes is one line record.        *)
(***************************************************************************)
EXTENDS Integers, Sequences, FiniteSets, TLC

VARIABLES
    file,                 \* the records stored in the csv file, in file order
    command,              \* cli.command
    opts,                 \* the GenConfig arguments of the command line
    overflow_checks,      \* TRUE: arithmetic overflow panics; FALSE: it wraps
    pc,                   \* position in main
    outcome,              \* what main has returned so far
    stdout,               \* what has been printed to standard output
    records,              \* the records loaded by the running command
    nodes,                \* Check: number of nodes (u16)
    maps,                 \* Check: the four value -> line maps
    smallest_port_range,  \* Check
    chk_i,                \* Check: the line counter i of the record loop
    configs,              \* GenConfig: name -> document
    port_assignations,    \* GenConfig: (server, peer) -> port
    interfaces,           \* GenConfig: flattened link pairs
    ptp_addresses         \* GenConfig: allocated point-to-point addresses

vars == << file, command, opts, overflow_checks, pc, outcome, stdout, records,
           nodes, maps, smallest_port_range, chk_i, configs, port_assignations,
           interfaces, ptp_addresses >>

--------------------------------------------------------------------------
(* Bounds of the model *)

\* largest number of records in the csv file
MaxNodes == 3
\* most fields of a Check input file that deviate from the well-formed file
MaxCheckDefects == 2
\* most fields of a GenConfig input file that deviate from the well-formed file
MaxGenDefects == 1

(* Program constants *)

\* largest value of the u16 fields port_min, port_max, nodes
U16Max == 65535
\* default of --as-num
DefaultAsNum == 65001

--------------------------------------------------------------------------
(* Option<T> and the values of the Record fields *)

None == << >>
Some(v) == << v >>
IsSome(o) == o # None
Unwrap(o) == o[1]

\* std::net::IpAddr: the address as big-endian 16-bit limbs (V4: 2, V6: 8)
V4(hi, lo) == [family |-> 4, limbs |-> << hi, lo >>]
V6(l) == [family |-> 6, limbs |-> l]

\* IpAddr::to_string: the canonical text, one per address value
IpToString(ip) == << "ip", ip.family >> \o ip.limbs

\* Privkey::to_string (base64 of the key bytes) and Privkey::pubkey
PrivkeyToString(k) == << "base64" >> \o k
Pubkey(k) == << "pub" >> \o k

\* str::contains("/") on an address string held as its pieces
ContainsSlash(ip) == \E k \in DOMAIN ip : ip[k] = "/"

Min(a, b) == IF a <= b THEN a ELSE b

--------------------------------------------------------------------------
(* The input files: the well-formed file of n records, with a bounded      *)
(* number of fields changed.  A defect is << record index, tag >>.         *)

\* the record of line i+1 of the well-formed file, after the Init record
BaseRecord(i) ==
    [ name      |-> << "node", i >>,
      interface |-> << "node", i >>,
      endpoint  |-> Some(<< "10.200.0", 9 + i >>),
      loopback  |-> V4(2629, 9 + i),
      port_min  |-> Some(1000),
      port_max  |-> Some(1050),
      keepalive |-> IF i % 2 = 1 THEN Some(25) ELSE None,
      privkey   |-> Some(<< "key", i >>),
      vlan      |-> Some(<< 100, 101 >>),
      vlan_ifs  |-> Some(<< "ether2", "ether3" >>),
      ifs_ips   |-> Some(<< << "192.168.0.5", "/", "24" >>,
                            << "192.168.1.5", "/", "24" >> >>) ]

PortsOf(tags) ==
    CASE "ports_none"     \in tags -> << None, None >>
      [] "ports_min_only" \in tags -> << Some(1000), None >>
      [] "ports_invalid"  \in tags -> << Some(1050), Some(1000) >>
      [] "ports_one"      \in tags -> << Some(1000), Some(1000) >>
      [] "ports_two"      \in tags -> << Some(1000), Some(1001) >>
      [] "ports_full"     \in tags -> << Some(0), Some(U16Max) >>
      [] "ports_top"      \in tags -> << Some(U16Max), None >>
      [] "ports_near_top" \in tags -> << Some(U16Max - 1), None >>
      [] "ports_top_two"  \in tags -> << Some(U16Max - 1), Some(U16Max) >>
      [] OTHER                     -> << Some(1000), Some(1050) >>

\* record i with the fields named by tags changed; dup_* copies the field
\* of the well-formed record before it
MkRecord(i, tags) ==
    LET b == BaseRecord(i)
        f == BaseRecord(IF i > 1 THEN i - 1 ELSE 1)
    IN  [ name      |-> IF "dup_name" \in tags THEN f.name ELSE b.name,
          interface |-> IF "dup_interface" \in tags THEN f.interface
                        ELSE b.interface,
          endpoint  |-> IF "no_endpoint" \in tags THEN None ELSE b.endpoint,
          loopback  |-> IF "dup_loopback" \in tags THEN f.loopback
                        ELSE IF "v6_loopback" \in tags
                        THEN V6(<< 64769, 0, 0, 0, 0, 0, 0, 9 + i >>)
                        ELSE b.loopback,
          port_min  |-> PortsOf(tags)[1],
          port_max  |-> PortsOf(tags)[2],
          keepalive |-> b.keepalive,
          privkey   |-> IF "no_privkey" \in tags THEN None
                        ELSE IF "dup_privkey" \in tags THEN f.privkey
                        ELSE b.privkey,
          vlan      |-> IF "no_vlan" \in tags THEN None ELSE b.vlan,
          vlan_ifs  |-> IF "no_vlan_ifs" \in tags THEN None ELSE b.vlan_ifs,
          ifs_ips   |-> IF "no_ifs_ips" \in tags THEN None
                        ELSE IF "ifs_no_mask" \in tags
                        THEN Some(<< b.ifs_ips[1][1], << "192.168.1.5" >> >>)
                        ELSE b.ifs_ips ]

\* the d-th defect of a file, d in 1..n*Len(tags): << record index, tag >>
Defect(tags, d) ==
    << ((d - 1) \div Len(tags)) + 1, tags[((d - 1) % Len(tags)) + 1] >>

MkFile(n, tags, D) ==
    [ i \in 1..n |->
        MkRecord(i, { Defect(tags, d)[2] :
                      d \in { e \in D : Defect(tags, e)[1] = i } }) ]

\* the subsets of 1..m of at most k elements
RECURSIVE SubsetsUpTo(_, _)
SubsetsUpTo(m, k) ==
    IF m = 0 \/ k = 0 THEN { {} }
    ELSE SubsetsUpTo(m - 1, k)
            \cup { c \cup { m } : c \in SubsetsUpTo(m - 1, k - 1) }

\* the files of 1..max records with at most k defects
RECURSIVE FilesUpTo(_, _, _)
FilesUpTo(tags, k, max) ==
    IF max = 0 THEN {}
    ELSE FilesUpTo(tags, k, max - 1)
            \cup { MkFile(max, tags, D) : D \in SubsetsUpTo(max * Len(tags), k) }

Files(tags, k) == FilesUpTo(tags, k, MaxNodes)

CheckTags == << "dup_name", "dup_interface", "dup_loopback", "dup_privkey",
                "no_privkey", "ports_min_only", "ports_invalid", "ports_one",
                "ports_two", "ports_full", "no_ifs_ips", "ifs_no_mask" >>

GenTags == << "dup_name", "dup_interface", "dup_loopback", "no_privkey",
              "no_endpoint", "ports_none", "ports_top", "ports_near_top",
              "no_vlan", "no_vlan_ifs", "no_ifs_ips" >>

CheckFiles == Files(CheckTags, MaxCheckDefects)
GenFiles == Files(GenTags, MaxGenDefects)

--------------------------------------------------------------------------
(* Results of main *)

\* kind: running, Ok, Err (main returned an error) or panic; error and msg: the
\* error and the parts of its message; at: the position main stopped at
Running == [kind |-> "running", error |-> "", msg |-> << >>, at |-> ""]
Ok == [kind |-> "Ok", error |-> "", msg |-> << >>, at |-> ""]
Err(e, m) == [kind |-> "Err", error |-> e, msg |-> m, at |-> ""]
Panic(what) == [kind |-> "panic", error |-> what, msg |-> << >>, at |-> ""]

\* the result of a fallible step: no error yet
NoErr == Running

--------------------------------------------------------------------------
(* Commands::Init, Commands::GenPrivkeys and no command *)

\* what Privkey::generate() may return
GeneratedKeys == { << "generated", 1 >>, << "generated", 2 >> }

\* the record Init serializes
InitRecord(key) == [BaseRecord(1) EXCEPT !.keepalive = Some(25),
                                         !.privkey = Some(key)]

\* lines 89-114: write the example record
CmdInit ==
    /\ pc = "start"
    /\ command = "Init"
    /\ \E key \in GeneratedKeys : file' = << InitRecord(key) >>
    /\ stdout' = Append(stdout, [kind |-> "created"])
    /\ outcome' = Ok
    /\ pc' = "done"
    /\ UNCHANGED << command, opts, overflow_checks, records, nodes, maps,
                    smallest_port_range, chk_i, configs, port_assignations,
                    interfaces, ptp_addresses >>

\* the records with a missing privkey: those that get a generated one
MissingKeys(f) == { i \in 1..Len(f) : f[i].privkey = None }

\* lines 115-145: give every record without a key a generated one, write back
CmdGenPrivkeys ==
    /\ pc = "start"
    /\ command = "GenPrivkeys"
    /\ \E keys \in [MissingKeys(file) -> GeneratedKeys] :
          /\ records' = [i \in 1..Len(file) |->
                            IF i \in MissingKeys(file)
                            THEN [file[i] EXCEPT !.privkey = Some(keys[i])]
                            ELSE file[i]]
          /\ file' = records'
    /\ stdout' = Append(stdout, [ kind |-> "generated",
                                  generated_privkeys |->
                                      Cardinality(MissingKeys(file)) ])
    /\ outcome' = Ok
    /\ pc' = "done"
    /\ UNCHANGED << command, opts, overflow_checks, nodes, maps,
                    smallest_port_range, chk_i, configs, port_assignations,
                    interfaces, ptp_addresses >>

\* line 573: None => {}
CmdNone ==
    /\ pc = "start"
    /\ command = "None"
    /\ outcome' = Ok
    /\ pc' = "done"
    /\ UNCHANGED << file, command, opts, overflow_checks, stdout, records, nodes,
                    maps, smallest_port_range, chk_i, configs, port_assignations,
                    interfaces, ptp_addresses >>

--------------------------------------------------------------------------
(* Commands::Check *)

FieldNames == << "name", "interface", "loopback", "privkey" >>

\* the array of the four fields checked for duplicates (the record has a key)
DupFields(rec) ==
    << rec.name, rec.interface, IpToString(rec.loopback),
       PrivkeyToString(Unwrap(rec.privkey)) >>

\* the message with the line being scanned in the place of the stored one
DuplicateMsgOwnLine(prev_record, rec, field_name, i) ==
    [ line |-> i, name |-> rec.name, field |-> field_name, found_on |-> i ]

\* the message of a duplicate: the line stored for the value, the name of the
\* record being scanned, the field and the line being scanned
DuplicateMsg(prev_record, rec, field_name, i) ==
    [ line |-> prev_record, name |-> rec.name, field |-> field_name,
      found_on |-> i ]

\* for ((k, field), field_name) in [...]: get or insert into maps[k]
RECURSIVE DupLoop(_, _, _, _)
DupLoop(ms, rec, i, k) ==
    IF k > 4 THEN [maps |-> ms, err |-> NoErr]
    ELSE LET field == DupFields(rec)[k]
         IN  IF field \in DOMAIN ms[k]
             THEN [ maps |-> ms,
                    err |-> Err("DuplicateField",
                                DuplicateMsg(ms[k][field], rec, FieldNames[k], i)) ]
             ELSE DupLoop([ms EXCEPT ![k] = (field :> i) @@ ms[k]], rec, i, k + 1)

\* name, interface and loopback looked up before the private key is required
CheckUniqueKeyLast(ms, rec, i) ==
    IF rec.privkey # None THEN DupLoop(ms, rec, i, 1)
    ELSE LET three == << rec.name, rec.interface, IpToString(rec.loopback) >>
             hit == { k \in 1..3 : three[k] \in DOMAIN ms[k] }
         IN  IF hit # {}
             THEN LET k == CHOOSE h \in hit : \A g \in hit : h <= g
                  IN  [ maps |-> ms,
                        err |-> Err("DuplicateField",
                                    DuplicateMsg(ms[k][three[k]], rec,
                                                 FieldNames[k], i)) ]
             ELSE [ maps |-> ms,
                    err |-> Err("MissingPrivateKey",
                                [line |-> i, name |-> rec.name]) ]

\* building the array fails first when the record has no private key
CheckUnique(ms, rec, i) ==
    IF rec.privkey = None
    THEN [ maps |-> ms,
           err |-> Err("MissingPrivateKey", [line |-> i, name |-> rec.name]) ]
    ELSE DupLoop(ms, rec, i, 1)

\* port_max.checked_sub(port_min)? + 1 in u16
PortRange(port_min, port_max, oc) ==
    IF port_max < port_min THEN [range |-> 0, err |-> "InvalidPortRange"]
    ELSE IF port_max - port_min + 1 > U16Max
         THEN IF oc THEN [range |-> 0, err |-> "overflow"]
              ELSE [range |-> (port_max - port_min + 1) % (U16Max + 1),
                    err |-> ""]
         ELSE [range |-> port_max - port_min + 1, err |-> ""]

\* the "Not enough port Check" of one record
CheckPorts(rec, i, n, smallest, oc) ==
    IF IsSome(rec.port_min) /\ IsSome(rec.port_max)
    THEN LET r == PortRange(Unwrap(rec.port_min), Unwrap(rec.port_max), oc)
         IN  IF r.err = "InvalidPortRange"
             THEN [ smallest |-> smallest,
                    err |-> Err("InvalidPortRange",
                                [line |-> i, name |-> rec.name]) ]
             ELSE IF r.err = "overflow"
             THEN [smallest |-> smallest, err |-> Panic("overflow")]
             ELSE IF r.range < n
             THEN [ smallest |-> smallest,
                    err |-> Err("InsufficientPorts",
                                [ line |-> i, name |-> rec.name, nodes |-> n,
                                  range |-> r.range,
                                  port_min |-> Unwrap(rec.port_min),
                                  port_max |-> Unwrap(rec.port_max) ]) ]
             ELSE [smallest |-> Min(smallest, r.range), err |-> NoErr]
    ELSE [smallest |-> smallest, err |-> NoErr]

\* the netmask check of one record: the first entry without "/"
CheckNetmask(rec, i) ==
    IF IsSome(rec.ifs_ips)
       /\ \E k \in DOMAIN Unwrap(rec.ifs_ips) : ~ContainsSlash(Unwrap(rec.ifs_ips)[k])
    THEN LET ips == Unwrap(rec.ifs_ips)
             k == CHOOSE j \in DOMAIN ips :
                      /\ ~ContainsSlash(ips[j])
                      /\ \A h \in 1..(j - 1) : ContainsSlash(ips[h])
         IN  Err("MissingPrefixLength",
                 [line |-> i, name |-> rec.name, ip |-> ips[k]])
    ELSE NoErr

\* one pass of the record loop: uniqueness, then ports, then netmasks
CheckOne(ms, rec, i, n, smallest, oc) ==
    LET u == CheckUnique(ms, rec, i)
        p == CheckPorts(rec, i, n, smallest, oc)
    IN  IF u.err # NoErr
        THEN [maps |-> ms, smallest |-> smallest, err |-> u.err]
        ELSE IF p.err # NoErr
        THEN [maps |-> u.maps, smallest |-> smallest, err |-> p.err]
        ELSE [ maps |-> u.maps, smallest |-> p.smallest,
               err |-> CheckNetmask(rec, i) ]

\* .count() as u16
CountAsU16(f) == Len(f) % (U16Max + 1)

\* the whole record loop from line i on: the first error, or Ok
RECURSIVE CheckScan(_, _, _, _, _, _)
CheckScan(f, i, ms, smallest, n, oc) ==
    IF i - 1 > Len(f) THEN Ok
    ELSE LET r == CheckOne(ms, f[i - 1], i, n, smallest, oc)
         IN  IF r.err # NoErr THEN r.err
             ELSE CheckScan(f, i + 1, r.maps, r.smallest, n, oc)

\* what Check returns on the file f, and the node count it reports
CheckRun(f, oc) ==
    [ outcome |-> CheckScan(f, 2, << << >>, << >>, << >>, << >> >>, U16Max,
                            CountAsU16(f), oc),
      nodes |-> CountAsU16(f) ]

\* lines 147-162: count the nodes, open the reader, create the maps
CheckStart ==
    /\ pc = "start"
    /\ command = "Check"
    /\ nodes' = CountAsU16(file)
    /\ maps' = << << >>, << >>, << >>, << >> >>
    /\ smallest_port_range' = U16Max
    /\ chk_i' = 2
    /\ pc' = "check_loop"
    /\ UNCHANGED << file, command, opts, overflow_checks, outcome, stdout,
                    records, configs, port_assignations, interfaces,
                    ptp_addresses >>

\* lines 163-238: one iteration of the record loop
CheckRecord ==
    /\ pc = "check_loop"
    /\ chk_i - 1 <= Len(file)
    /\ LET r == CheckOne(maps, file[chk_i - 1], chk_i, nodes,
                         smallest_port_range, overflow_checks)
       IN  IF r.err # NoErr
           THEN /\ outcome' = [r.err EXCEPT !.at = pc]
                /\ pc' = "done"
                /\ UNCHANGED << maps, smallest_port_range, chk_i >>
           ELSE /\ maps' = r.maps
                /\ smallest_port_range' = r.smallest
                /\ chk_i' = chk_i + 1
                /\ UNCHANGED << outcome, pc >>
    /\ UNCHANGED << file, command, opts, overflow_checks, stdout, records,
                    nodes, configs, port_assignations, interfaces,
                    ptp_addresses >>

\* lines 239, 575: every record passed
CheckFinish ==
    /\ pc = "check_loop"
    /\ chk_i - 1 > Len(file)
    /\ stdout' = Append(stdout, [kind |-> "valid", nodes |-> nodes])
    /\ outcome' = Ok
    /\ pc' = "done"
    /\ UNCHANGED << file, command, opts, overflow_checks, records, nodes, maps,
                    smallest_port_range, chk_i, configs, port_assignations,
                    interfaces, ptp_addresses >>

NextCheck == CheckStart \/ CheckRecord \/ CheckFinish

--------------------------------------------------------------------------
(* Commands::GenConfig: the lines of a document *)

Comment(node) == [kind |-> "comment", node |-> node]
Menu(m) == [kind |-> "menu", menu |-> m]
\* remove [find comment="mt-wg-meshconf"]
Remove == [kind |-> "remove", tag |-> "mt-wg-meshconf"]
\* add <args> comment=mt-wg-meshconf
Add(args) == [kind |-> "add", args |-> args, tag |-> "mt-wg-meshconf"]

\* configs.get_mut(name).unwrap().push_str(...)
Push(cfgs, name, lines) == [cfgs EXCEPT ![name] = @ \o lines]

\* records.iter().for_each(|r| configs[r.name].push_str(L[r])), L by index
RECURSIVE ForEachPush(_, _, _, _)
ForEachPush(cfgs, recs, L, i) ==
    IF i > Len(recs) THEN cfgs
    ELSE ForEachPush(Push(cfgs, recs[i].name, L[i]), recs, L, i + 1)

\* the indices of the records whose name differs from record i's
Others(recs, i) == SelectSeq([k \in 1..Len(recs) |-> k],
                             LAMBDA k : recs[k].name # recs[i].name)

--------------------------------------------------------------------------
(* GenConfig: wireguard interfaces and the port map ("server side") *)

\* port += 1 on the u16 counter
NextPort(port) == port + 1

\* port_assignations.insert((server.name, peer.name), port)
ServerPortKey(server, peer) == << server.name, peer.name >>

\* add listen-port=.. mtu=1420 name=.. private-key=..
InterfaceLine(port, server, peer) ==
    Add([ listen_port |-> port, mtu |-> 1420, name |-> peer.interface,
          private_key |-> Unwrap(server.privkey) ])

\* for server in &records { let mut port = ...?; for peer in &records {...} }
\* st = [configs, ports, port, err]; p = 0 is the head of server s's pass
RECURSIVE ServerLoop(_, _, _, _, _)
ServerLoop(recs, s, p, st, oc) ==
    IF st.err # NoErr \/ s > Len(recs) THEN st
    ELSE IF p = 0
    THEN IF recs[s].port_min = None
         THEN [st EXCEPT !.err = Err("MissingPortBudget",
                                     [context |-> "no min port set"])]
         ELSE ServerLoop(recs, s, 1,
                         [st EXCEPT !.port = Unwrap(recs[s].port_min)], oc)
    ELSE IF p > Len(recs) THEN ServerLoop(recs, s + 1, 0, st, oc)
    ELSE IF recs[s].name = recs[p].name THEN ServerLoop(recs, s, p + 1, st, oc)
    ELSE IF recs[s].privkey = None
    THEN [st EXCEPT !.err = Err("MissingPrivateKey",
                                [context |-> "missing privkey"])]
    ELSE LET pushed == [st EXCEPT
                 !.configs = Push(@, recs[s].name,
                                  << InterfaceLine(st.port, recs[s], recs[p]) >>),
                 !.ports = (ServerPortKey(recs[s], recs[p]) :> st.port) @@ @]
         IN  IF NextPort(st.port) > U16Max
             THEN IF oc THEN [pushed EXCEPT !.err = Panic("overflow")]
                  ELSE ServerLoop(recs, s, p + 1,
                           [pushed EXCEPT
                               !.port = NextPort(st.port) % (U16Max + 1)], oc)
             ELSE ServerLoop(recs, s, p + 1,
                             [pushed EXCEPT !.port = NextPort(st.port)], oc)

ServerSide(cfgs, recs, oc) ==
    ServerLoop(recs, 1, 0,
               [configs |-> cfgs, ports |-> << >>, port |-> 0, err |-> NoErr],
               oc)

--------------------------------------------------------------------------
(* GenConfig: wireguard peers ("peer side") *)

\* the lookup of the server's own assignment instead of the peer's
PeerPortKeyOwn(server, peer) == << server.name, peer.name >>

\* port_assignations.get(&(peer.name, server.name))
PeerPortKey(server, peer) == << peer.name, server.name >>

\* peer.keepalive.unwrap_or(0)
KeepaliveOf(peer) == IF IsSome(peer.keepalive) THEN Unwrap(peer.keepalive) ELSE 0

\* add allowed-address=0.0.0.0/0 endpoint-address=.. endpoint-port=.. ...
PeerLine(ports, server, peer) ==
    Add([ allowed_address |-> "0.0.0.0/0",
          endpoint_address |-> Unwrap(peer.endpoint),
          endpoint_port |-> ports[PeerPortKey(server, peer)],
          interface |-> peer.interface,
          name |-> peer.name,
          persistent_keepalive |-> KeepaliveOf(peer),
          public_key |-> Pubkey(Unwrap(peer.privkey)) ])

\* st = [configs, err]
RECURSIVE PeerLoop(_, _, _, _, _)
PeerLoop(recs, ports, s, p, st) ==
    IF st.err # NoErr \/ s > Len(recs) THEN st
    ELSE IF p > Len(recs) THEN PeerLoop(recs, ports, s + 1, 1, st)
    ELSE IF recs[s].name = recs[p].name THEN PeerLoop(recs, ports, s, p + 1, st)
    ELSE IF recs[p].endpoint = None
    THEN [st EXCEPT !.err = Err("MissingEndpoint",
                                [context |-> "no endpoint address"])]
    ELSE IF PeerPortKey(recs[s], recs[p]) \notin DOMAIN ports
    THEN [st EXCEPT !.err = Panic("unwrap")]
    ELSE IF recs[p].privkey = None
    THEN [st EXCEPT !.err = Err("MissingPrivateKey",
                                [context |-> "missing privkey"])]
    ELSE PeerLoop(recs, ports, s, p + 1,
                  [st EXCEPT !.configs =
                       Push(@, recs[s].name,
                            << PeerLine(ports, recs[s], recs[p]) >>)])

PeerSide(cfgs, recs, ports) ==
    PeerLoop(recs, ports, 1, 1, [configs |-> cfgs, err |-> NoErr])

--------------------------------------------------------------------------
(* GenConfig: loopback and point-to-point addresses *)

\* u32 / u128 from_be_bytes(octets) + 1 on the limbs, wrapping
RECURSIVE AddOne(_)
AddOne(l) ==
    IF l = << >> THEN << >>
    ELSE LET n == Len(l)
         IN  IF l[n] < 65535 THEN [l EXCEPT ![n] = l[n] + 1]
             ELSE Append(AddOne(SubSeq(l, 1, n - 1)), 0)

IsMaxAddr(ip) == \A k \in DOMAIN ip.limbs : ip.limbs[k] = 65535

\* a counter that steps by two address units
PtpNextIpByTwo(ip) == [ip EXCEPT !.limbs = AddOne(AddOne(ip.limbs))]

\* the address after ip, in ip's family
PtpNextIp(ip) == [ip EXCEPT !.limbs = AddOne(ip.limbs)]

\* the pairs (a, b), b after a in record order, flattened: a1, b1, a2, b2, ...
RECURSIVE PairLoop(_, _, _, _)
PairLoop(n, i, j, acc) ==
    IF i > n THEN acc
    ELSE IF j > n THEN PairLoop(n, i + 1, i + 2, acc)
    ELSE PairLoop(n, i, j + 1, acc \o << i, j >>)

LinkInterfaces(recs) == PairLoop(Len(recs), 1, 2, << >>)

\* ptp_addresses.push(start); for _ in 1..interfaces.len() { push(last + 1) }
\* st = [addrs, err]
RECURSIVE AddrLoop(_, _, _, _)
AddrLoop(st, k, len, oc) ==
    IF st.err # NoErr \/ k >= len THEN st
    ELSE LET last == st.addrs[Len(st.addrs)]
         IN  IF IsMaxAddr(last) /\ oc
             THEN [st EXCEPT !.err = Panic("overflow")]
             ELSE AddrLoop([st EXCEPT !.addrs = Append(@, PtpNextIp(last))],
                           k + 1, len, oc)

PtpAddresses(start, len, oc) ==
    AddrLoop([addrs |-> << start >>, err |-> NoErr], 1, len, oc)

\* add address=<ip>/<prefix> interface=<interface>
AddressLine(ip, prefix, interface) ==
    Add([address |-> ip, prefix |-> prefix, interface |-> interface])

\* for (ip, r) in ptp_addresses.windows(2).zip(interfaces.windows(2)).step_by(2)
RECURSIVE WindowLoop(_, _, _, _, _)
WindowLoop(cfgs, recs, addrs, ifs, w) ==
    IF w + 1 > Len(addrs) \/ w + 1 > Len(ifs) THEN cfgs
    ELSE LET r0 == recs[ifs[w]]
             r1 == recs[ifs[w + 1]]
             one == Push(cfgs, r0.name,
                         << AddressLine(addrs[w], 31, r1.interface) >>)
             two == Push(one, r1.name,
                         << AddressLine(addrs[w + 1], 31, r0.interface) >>)
         IN  WindowLoop(two, recs, addrs, ifs, w + 2)

\* the loopback section without its remove statement
LoopbackLinesNoRemove(r) ==
    << Menu("/ip address"), AddressLine(r.loopback, 32, "lo") >>

LoopbackLines(r) ==
    << Menu("/ip address"), Remove, AddressLine(r.loopback, 32, "lo") >>

--------------------------------------------------------------------------
(* GenConfig: OSPF *)

\* the comma-joined interfaces of the records named otherwise than r
IfList(recs, i) == [k \in 1..Len(Others(recs, i)) |->
                        recs[Others(recs, i)[k]].interface]

OspfInstanceLines(r) ==
    << Menu("/routing ospf instance"), Remove,
       Add([disabled |-> "no", name |-> "ospf-ipv4", router_id |-> r.loopback]) >>

OspfAreaLines ==
    << Menu("/routing ospf area"), Remove,
       Add([disabled |-> "no", instance |-> "ospf-ipv4", name |-> "area0-ipv4"]) >>

OspfTemplateLines ==
    << Menu("/routing ospf interface-template"), Remove,
       Add([ area |-> "area0-ipv4", disabled |-> "no", interfaces |-> << "lo" >>,
             passive |-> TRUE ]) >>

OspfAdjacencyLines(recs, i) ==
    << Add([ area |-> "area0-ipv4", disabled |-> "no",
             interfaces |-> IfList(recs, i), type |-> "ptp" ]) >>

OspfStage(cfgs, recs) ==
    LET n == Len(recs)
        a == ForEachPush(cfgs, recs, [i \in 1..n |-> OspfInstanceLines(recs[i])], 1)
        b == ForEachPush(a, recs, [i \in 1..n |-> OspfAreaLines], 1)
        c == ForEachPush(b, recs, [i \in 1..n |-> OspfTemplateLines], 1)
    IN  ForEachPush(c, recs, [i \in 1..n |-> OspfAdjacencyLines(recs, i)], 1)

--------------------------------------------------------------------------
(* GenConfig: EVPN (bridge, vxlan, bgp, evpn) *)

\* a.iter().zip(b): pairs up to the shorter length
ZipLen(a, b) == Min(Len(a), Len(b))

\* records.iter().try_for_each(|r| { <fields>?; push lines }).context(ctx)
\* need(r): an error when a field the closure unwraps is absent, else NoErr
\* st = [configs, err]; L[i] are the lines pushed for record i
RECURSIVE TryForEachPush(_, _, _, _, _)
TryForEachPush(st, recs, E, L, i) ==
    IF st.err # NoErr \/ i > Len(recs) THEN st
    ELSE IF E[i] # NoErr THEN [st EXCEPT !.err = E[i]]
    ELSE TryForEachPush([st EXCEPT !.configs = Push(@, recs[i].name, L[i])],
                        recs, E, L, i + 1)

VlanErr(inner, ctx) == Err("MissingVlanConfig", [context |-> ctx, cause |-> inner])

\* bridge ports: ifs = vlan_ifs?; vlans = vlan?; zip
BridgePortNeed(r) ==
    IF r.vlan_ifs = None THEN VlanErr("no vlan if set", "vlan error")
    ELSE IF r.vlan = None THEN VlanErr("no vlan set", "vlan error")
    ELSE NoErr

BridgePortLines(r) ==
    [k \in 1..ZipLen(Unwrap(r.vlan_ifs), Unwrap(r.vlan)) |->
        Add([ bridge |-> "wg-mesh-br",
              frame_types |-> "admit-only-untagged-and-priority-tagged",
              interface |-> Unwrap(r.vlan_ifs)[k], pvid |-> Unwrap(r.vlan)[k] ])]

\* a stage that unwraps only vlan, with its context
VlanNeed(r, ctx) == IF r.vlan = None THEN VlanErr("no vlan set", ctx) ELSE NoErr

VxlanLines(r) ==
    [k \in 1..Len(Unwrap(r.vlan)) |->
        Add([ bridge |-> "wg-mesh-br", bridge_pvid |-> Unwrap(r.vlan)[k],
              dont_fragment |-> "disabled", learning |-> "no",
              local_address |-> r.loopback,
              name |-> << "vxlan1000", Unwrap(r.vlan)[k] >>,
              vni |-> << "1000", Unwrap(r.vlan)[k] >> ])]

BgpInstanceLines(r, as_num) ==
    << Menu("/routing bgp instance"), Remove,
       Add([ as |-> as_num, disabled |-> "no", name |-> "wg-mesh-bgp",
             router_id |-> r.loopback ]) >>

BgpConnectionLines(recs, i, as_num) ==
    [k \in 1..Len(Others(recs, i)) |->
        LET b == recs[Others(recs, i)[k]]
        IN  Add([ afi |-> "evpn", connect |-> "yes", disabled |-> "no",
                  instance |-> "wg-mesh-bgp", listen |-> "yes",
                  local_address |-> recs[i].loopback, local_role |-> "ibgp",
                  name |-> b.interface, remote_address |-> b.loopback,
                  remote_prefix |-> 32, remote_as |-> as_num ])]

EvpnLines(r, as_num) ==
    [k \in 1..Len(Unwrap(r.vlan)) |->
        LET target == << as_num, ":", "1000", Unwrap(r.vlan)[k] >>
        IN  Add([ export_route_targets |-> target,
                  import_route_targets |-> target,
                  instance |-> "wg-mesh-bgp",
                  name |-> << "wg-mesh-evpn-1000", Unwrap(r.vlan)[k] >>,
                  vni |-> << "1000", Unwrap(r.vlan)[k] >> ])]

\* the lines of a record that lacks the field are never pushed
IfNoErr(e, lines) == IF e = NoErr THEN lines ELSE << >>

EvpnStage(cfgs, recs, as_num) ==
    LET n == Len(recs)
        idx == 1..n
        start == [configs |-> cfgs, err |-> NoErr]
        Plain(st, L) == [st EXCEPT !.configs = ForEachPush(@, recs, L, 1)]
        a == Plain(start, [i \in idx |->
                 << Menu("/interface bridge"), Remove,
                    Add([name |-> "wg-mesh-br", vlan_filtering |-> "yes"]) >>])
        b == Plain(a, [i \in idx |-> << Menu("/interface bridge port"), Remove >>])
        c == TryForEachPush(b, recs, [i \in idx |-> BridgePortNeed(recs[i])],
                 [i \in idx |-> IfNoErr(BridgePortNeed(recs[i]),
                                        BridgePortLines(recs[i]))], 1)
        d == Plain(c, [i \in idx |-> << Menu("/interface vxlan"), Remove >>])
        e == TryForEachPush(d, recs, [i \in idx |-> VlanNeed(recs[i], "vxlan error")],
                 [i \in idx |-> IfNoErr(VlanNeed(recs[i], "vxlan error"),
                                        VxlanLines(recs[i]))], 1)
        f == Plain(e, [i \in idx |-> BgpInstanceLines(recs[i], as_num)])
        g == Plain(f, [i \in idx |-> << Menu("/routing bgp connection"), Remove >>])
        h == Plain(g, [i \in idx |-> BgpConnectionLines(recs, i, as_num)])
        j == Plain(h, [i \in idx |-> << Menu("/routing bgp evpn"), Remove >>])
    IN  IF c.err # NoErr THEN c
        ELSE IF e.err # NoErr THEN e
        ELSE TryForEachPush(j, recs, [i \in idx |-> VlanNeed(recs[i], "vxlan error")],
                 [i \in idx |-> IfNoErr(VlanNeed(recs[i], "vxlan error"),
                                        EvpnLines(recs[i], as_num))], 1)

--------------------------------------------------------------------------
(* GenConfig: VLAN interfaces and their addresses *)

VlanInterfaceLines(r) ==
    [k \in 1..Len(Unwrap(r.vlan)) |->
        Add([ interface |-> "wg-mesh-br", name |-> << "vlan", Unwrap(r.vlan)[k] >>,
              vlan_id |-> Unwrap(r.vlan)[k] ])]

\* ifs_ips unwrapped with an error, as vlan is
VlanIpNeedBoth(r) ==
    IF r.ifs_ips = None THEN VlanErr("no ifs ips set", "vlan address error")
    ELSE IF r.vlan = None THEN VlanErr("no vlan set", "vlan address error")
    ELSE NoErr

\* if let Some(ifs_ips) = &r.ifs_ips { zip(ifs_ips, r.vlan?) }
VlanIpNeed(r) ==
    IF IsSome(r.ifs_ips) /\ r.vlan = None
    THEN VlanErr("no vlan set", "vlan address error")
    ELSE NoErr

VlanIpLines(r) ==
    IF r.ifs_ips = None THEN << >>
    ELSE [k \in 1..ZipLen(Unwrap(r.ifs_ips), Unwrap(r.vlan)) |->
             Add([ address |-> Unwrap(r.ifs_ips)[k],
                   interface |-> << "vlan", Unwrap(r.vlan)[k] >> ])]

VlanStage(cfgs, recs) ==
    LET n == Len(recs)
        idx == 1..n
        a == ForEachPush(cfgs, recs,
                 [i \in idx |-> << Menu("/interface vlan"), Remove >>], 1)
        b == TryForEachPush([configs |-> a, err |-> NoErr], recs,
                 [i \in idx |-> VlanNeed(recs[i], "vlan interface error")],
                 [i \in idx |-> IfNoErr(VlanNeed(recs[i], "vlan interface error"),
                                        VlanInterfaceLines(recs[i]))], 1)
        c == [b EXCEPT !.configs = ForEachPush(@, recs,
                 [i \in idx |-> << Menu("/ip address") >>], 1)]
    IN  IF b.err # NoErr THEN b
        ELSE TryForEachPush(c, recs, [i \in idx |-> VlanIpNeed(recs[i])],
                 [i \in idx |-> IfNoErr(VlanIpNeed(recs[i]), VlanIpLines(recs[i]))],
                 1)

--------------------------------------------------------------------------
(* GenConfig: anycast gateways *)

\* what rng.fill_bytes may leave in data
RandomData == { [k \in 1..6 |-> 1], [k \in 1..6 |-> 255] }

\* data[0] |= 0x02; data[0] &= 0xFE
AnycastMac(data) ==
    LET b == data[1]
        set == IF (b \div 2) % 2 = 1 THEN b ELSE b + 2
    IN  [data EXCEPT ![1] = set - (set % 2)]

\* for vlan in vlans { mac = ...; records.iter().for_each(add macvlan) }
RECURSIVE MacvlanLoop(_, _, _, _, _)
MacvlanLoop(cfgs, recs, vlans, data, v) ==
    IF v > Len(vlans) THEN cfgs
    ELSE MacvlanLoop(
             ForEachPush(cfgs, recs,
                 [i \in 1..Len(recs) |->
                     << Add([ interface |-> << "vlan", vlans[v] >>,
                              mac_address |-> AnycastMac(data[v]),
                              name |-> << "macvlan-wg-", vlans[v] >> ]) >>], 1),
             recs, vlans, data, v + 1)

AnycastAddressLines(vlans, addrs) ==
    [k \in 1..ZipLen(vlans, addrs) |->
        Add([interface |-> << "macvlan-wg-", vlans[k] >>, address |-> addrs[k]])]

AnycastStage(cfgs, recs, vlans, addrs, data) ==
    LET idx == 1..Len(recs)
        a == ForEachPush(cfgs, recs,
                 [i \in idx |-> << Menu("/interface macvlan"), Remove >>], 1)
        b == MacvlanLoop(a, recs, vlans, data, 1)
        c == ForEachPush(b, recs, [i \in idx |-> << Menu("/ip address") >>], 1)
    IN  ForEachPush(c, recs, [i \in idx |-> AnycastAddressLines(vlans, addrs)], 1)

--------------------------------------------------------------------------
(* GenConfig: the stages of the match arm, in order *)

\* a stage failed: main returns the error (or unwinds), nothing is printed
\* an error return that first prints the documents composed so far
AbortPrinting(e) ==
    /\ outcome' = [e EXCEPT !.at = pc]
    /\ stdout' = Append(stdout,
                    [ kind |-> "documents",
                      docs |-> { [node |-> n, config |-> configs[n]] :
                                 n \in DOMAIN configs } ])
    /\ pc' = "done"

Abort(e) ==
    /\ outcome' = [e EXCEPT !.at = pc]
    /\ stdout' = stdout
    /\ pc' = "done"

\* the records read through a handle that truncates the file
GenLoadTruncating ==
    /\ pc = "start"
    /\ command = "GenConfig"
    /\ records' = file
    /\ file' = << >>
    /\ configs' = [name \in { file[i].name : i \in 1..Len(file) } |->
                      << Comment(name) >>]
    /\ pc' = "wireguard"
    /\ UNCHANGED << command, opts, overflow_checks, outcome, stdout, nodes,
                    maps, smallest_port_range, chk_i, port_assignations,
                    interfaces, ptp_addresses >>

\* lines 249-270: read the records, create the config entries
GenLoad ==
    /\ pc = "start"
    /\ command = "GenConfig"
    /\ records' = file
    /\ configs' = [name \in { file[i].name : i \in 1..Len(file) } |->
                      << Comment(name) >>]
    /\ pc' = "wireguard"
    /\ UNCHANGED << file, command, opts, overflow_checks, outcome, stdout, nodes,
                    maps, smallest_port_range, chk_i, port_assignations,
                    interfaces, ptp_addresses >>

\* lines 272-300: /interface wireguard and the "server side" loop
GenWireguard ==
    /\ pc = "wireguard"
    /\ LET a == ForEachPush(configs, records,
                   [i \in 1..Len(records) |->
                       << Menu("/interface wireguard"), Remove >>], 1)
           r == ServerSide(a, records, overflow_checks)
       IN  IF r.err # NoErr
           THEN Abort(r.err) /\ UNCHANGED << configs, port_assignations >>
           ELSE /\ configs' = r.configs
                /\ port_assignations' = r.ports
                /\ pc' = "peers"
                /\ UNCHANGED << outcome, stdout >>
    /\ UNCHANGED << file, command, opts, overflow_checks, records, nodes,
                    maps, smallest_port_range, chk_i, interfaces, ptp_addresses >>

\* lines 302-325: /interface wireguard peers and the "peer side" loop
GenPeers ==
    /\ pc = "peers"
    /\ LET a == ForEachPush(configs, records,
                   [i \in 1..Len(records) |->
                       << Menu("/interface wireguard peers"), Remove >>], 1)
           r == PeerSide(a, records, port_assignations)
       IN  IF r.err # NoErr
           THEN Abort(r.err) /\ UNCHANGED configs
           ELSE /\ configs' = r.configs
                /\ pc' = "addresses"
                /\ UNCHANGED << outcome, stdout >>
    /\ UNCHANGED << file, command, opts, overflow_checks, records, nodes,
                    maps, smallest_port_range, chk_i, port_assignations,
                    interfaces, ptp_addresses >>

\* lines 327-375: loopback addresses, link pairs and their addresses
GenAddresses ==
    /\ pc = "addresses"
    /\ LET a == ForEachPush(configs, records,
                   [i \in 1..Len(records) |-> LoopbackLines(records[i])], 1)
           ifs == LinkInterfaces(records)
           r == PtpAddresses(opts.ptp_start_ip, Len(ifs), overflow_checks)
       IN  IF r.err # NoErr
           THEN Abort(r.err) /\ UNCHANGED << configs, interfaces, ptp_addresses >>
           ELSE /\ interfaces' = ifs
                /\ ptp_addresses' = r.addrs
                /\ configs' = WindowLoop(a, records, r.addrs, ifs, 1)
                /\ pc' = "ospf"
                /\ UNCHANGED << outcome, stdout >>
    /\ UNCHANGED << file, command, opts, overflow_checks, records, nodes,
                    maps, smallest_port_range, chk_i, port_assignations >>

\* lines 377-410
GenOspf ==
    /\ pc = "ospf"
    /\ configs' = IF opts.ospf THEN OspfStage(configs, records) ELSE configs
    /\ pc' = "evpn"
    /\ UNCHANGED << file, command, opts, overflow_checks, outcome, stdout, records,
                    nodes, maps, smallest_port_range, chk_i, port_assignations,
                    interfaces, ptp_addresses >>

\* lines 412-486
GenEvpn ==
    /\ pc = "evpn"
    /\ LET r == IF opts.evpn THEN EvpnStage(configs, records, opts.as_num)
                ELSE [configs |-> configs, err |-> NoErr]
       IN  IF r.err # NoErr
           THEN Abort(r.err) /\ UNCHANGED configs
           ELSE /\ configs' = r.configs
                /\ pc' = "vlans"
                /\ UNCHANGED << outcome, stdout >>
    /\ UNCHANGED << file, command, opts, overflow_checks, records, nodes,
                    maps, smallest_port_range, chk_i, port_assignations,
                    interfaces, ptp_addresses >>

\* lines 488-520
GenVlans ==
    /\ pc = "vlans"
    /\ LET r == VlanStage(configs, records)
       IN  IF r.err # NoErr
           THEN Abort(r.err) /\ UNCHANGED configs
           ELSE /\ configs' = r.configs
                /\ pc' = "anycast"
                /\ UNCHANGED << outcome, stdout >>
    /\ UNCHANGED << file, command, opts, overflow_checks, records, nodes,
                    maps, smallest_port_range, chk_i, port_assignations,
                    interfaces, ptp_addresses >>

\* lines 522-567
GenAnycast ==
    /\ pc = "anycast"
    /\ IF IsSome(opts.vlans) /\ IsSome(opts.anycast_addresses)
       THEN LET vlans == Unwrap(opts.vlans)
                addrs == Unwrap(opts.anycast_addresses)
            IN  IF Len(vlans) # Len(addrs)
                THEN /\ Abort(Err("MismatchedListLengths",
                            [context |->
                             "Numbers of vlans and anycast addresses don't match"]))
                     /\ UNCHANGED configs
                ELSE \E data \in [1..Len(vlans) -> RandomData] :
                        /\ configs' = AnycastStage(configs, records, vlans, addrs,
                                                   data)
                        /\ pc' = "emit"
                        /\ UNCHANGED << outcome, stdout >>
       ELSE /\ pc' = "emit"
            /\ UNCHANGED << configs, outcome, stdout >>
    /\ UNCHANGED << file, command, opts, overflow_checks, records, nodes,
                    maps, smallest_port_range, chk_i, port_assignations,
                    interfaces, ptp_addresses >>

\* lines 569-575: print every document (HashMap order: kept as a set)
GenEmit ==
    /\ pc = "emit"
    /\ stdout' = Append(stdout,
                    [ kind |-> "documents",
                      docs |-> { [node |-> n, config |-> configs[n]] :
                                 n \in DOMAIN configs } ])
    /\ outcome' = Ok
    /\ pc' = "done"
    /\ UNCHANGED << file, command, opts, overflow_checks, records, nodes, maps,
                    smallest_port_range, chk_i, configs, port_assignations,
                    interfaces, ptp_addresses >>

NextGen ==
    \/ GenLoad \/ GenWireguard \/ GenPeers \/ GenAddresses \/ GenOspf
    \/ GenEvpn \/ GenVlans \/ GenAnycast \/ GenEmit

--------------------------------------------------------------------------
(* The command line *)

\* the start addresses tried for --ptp-start-ip
PtpStartIps ==
    { V4(2560, 0), V4(2560, 65535), V4(65535, 65534),
      V6(<< 64768, 0, 0, 0, 0, 0, 0, 0 >>),
      V6(<< 65535, 65535, 65535, 65535, 65535, 65535, 65535, 65535 >>) }

\* the --vlans / --anycast-addresses pairs tried
AnycastArgs ==
    { << None, None >>,
      << Some(<< 100 >>), None >>,
      << Some(<< 100 >>), Some(<< V4(49320, 1) >>) >>,
      << Some(<< 100, 101 >>), Some(<< V4(49320, 1) >>) >> }

Opts(ip, o, e, a) ==
    [ ptp_start_ip |-> ip, ospf |-> o, evpn |-> e, as_num |-> DefaultAsNum,
      vlans |-> a[1], anycast_addresses |-> a[2] ]

\* the options tried on every file: every --vlans / --anycast-addresses pair
\* with OSPF and EVPN on, and OSPF and EVPN off, one or both (ospf and evpn
\* are flags whose default is true; main branches on both values)
GenOpts ==
    { Opts(V4(2560, 0), TRUE, TRUE, a) : a \in AnycastArgs }
    \cup { Opts(V4(2560, 0), o, e, << None, None >>) :
              o \in BOOLEAN, e \in BOOLEAN }
    \cup { Opts(V4(2560, 0), FALSE, FALSE,
                << Some(<< 100 >>), Some(<< V4(49320, 1) >>) >>) }

\* every start address, tried on the well-formed files
StartOpts == { Opts(ip, TRUE, TRUE, << None, None >>) : ip \in PtpStartIps }

WellFormedFiles == Files(GenTags, 0)

\* the well-formed files, with no or one record's loopback an IPv6 address
V6LoopbackFiles == Files(<< "v6_loopback" >>, 1)

\* the well-formed files, with no or one record's port budget changed
PortTags == << "ports_one", "ports_two", "ports_top_two", "ports_min_only",
               "ports_top", "ports_near_top" >>
PortBudgetFiles == Files(PortTags, 1)

InitLocals ==
    /\ pc = "start"
    /\ outcome = Running
    /\ stdout = << >>
    /\ records = << >>
    /\ nodes = 0
    /\ maps = << >>
    /\ smallest_port_range = 0
    /\ chk_i = 0
    /\ configs = << >>
    /\ port_assignations = << >>
    /\ interfaces = << >>
    /\ ptp_addresses = << >>

InitCheck ==
    /\ file \in CheckFiles
    /\ command = "Check"
    /\ opts = Opts(V4(2560, 0), TRUE, TRUE, << None, None >>)
    /\ overflow_checks \in BOOLEAN
    /\ InitLocals

SpecCheck == InitCheck /\ [][NextCheck]_vars

InitGen ==
    /\ command = "GenConfig"
    /\ \/ file \in GenFiles /\ opts \in GenOpts
       \/ file \in WellFormedFiles \cup V6LoopbackFiles /\ opts \in StartOpts
       \/ /\ file \in PortBudgetFiles
          /\ opts = Opts(V4(2560, 0), TRUE, TRUE, << None, None >>)
    /\ overflow_checks \in BOOLEAN
    /\ InitLocals

SpecGen == InitGen /\ [][NextGen]_vars

\* the commands that take no arguments
InitOther ==
    /\ file \in CheckFiles
    /\ command \in { "Init", "GenPrivkeys", "None" }
    /\ opts = Opts(V4(2560, 0), TRUE, TRUE, << None, None >>)
    /\ overflow_checks \in BOOLEAN
    /\ InitLocals

Init == InitCheck \/ InitGen \/ InitOther

Next == CmdInit \/ CmdGenPrivkeys \/ CmdNone \/ NextCheck \/ NextGen

Spec == Init /\ [][Next]_vars

--------------------------------------------------------------------------
(* Properties *)

StageOrder == << "start", "wireguard", "peers", "addresses", "ospf", "evpn",
                 "vlans", "anycast", "emit", "done" >>

StageIdx(stage) == CHOOSE k \in DOMAIN StageOrder : StageOrder[k] = stage

\* the stage GenConfig is at, or stopped at
Where == IF pc = "done" /\ outcome.kind # "Ok" THEN outcome.at ELSE pc

\* GenConfig has completed the stage without error
Passed(stage) == command = "GenConfig" /\ StageIdx(Where) > StageIdx(stage)

GenDone == command = "GenConfig" /\ pc = "done"

\* --ospf and --evpn have their default value
FlagsOn == opts.ospf /\ opts.evpn
GenOk == GenDone /\ outcome.kind = "Ok"

UniqueNames(f) == \A i, j \in DOMAIN f : i # j => f[i].name # f[j].name
AllPortMin(f) == \A i \in DOMAIN f : IsSome(f[i].port_min)
AllKeys(f) == \A i \in DOMAIN f : IsSome(f[i].privkey)

\* the port map holds N(N-1) entries and gives the p-th record, as peer of
\* server s, port_min(s) plus the number of records before p other than s
PortMapExact(f) ==
    LET n == Len(f)
    IN  /\ Cardinality(DOMAIN port_assignations) = n * (n - 1)
        /\ \A s, p \in 1..n :
              s # p =>
                 /\ << f[s].name, f[p].name >> \in DOMAIN port_assignations
                 /\ port_assignations[<< f[s].name, f[p].name >>]
                       = Unwrap(f[s].port_min)
                         + Cardinality({ q \in 1..(p - 1) : q # s })

\* C1: at the end of a GenConfig run (OSPF and EVPN on) over records with
\* unique names and port_min (and a private key) on every node, the port map
\* has exactly N(N-1) entries and every server's ports are port_min,
\* port_min+1, ..., port_min+N-2 in record order, the server skipped.
C1_PortMapContiguous ==
    ( /\ GenDone /\ FlagsOn
      /\ UniqueNames(file) /\ AllPortMin(file) /\ AllKeys(file) )
        => PortMapExact(file)

\* the same, for servers whose counter stays within u16 after the last peer
C1_PortMapWithinU16 ==
    ( /\ GenDone /\ UniqueNames(file) /\ AllPortMin(file) /\ AllKeys(file)
      /\ \A i \in DOMAIN file :
            Unwrap(file[i].port_min) + Len(file) - 1 <= U16Max )
        => PortMapExact(file)

--------------------------------------------------------------------------

\* a - s in address units when a is s or one of the next 65535 addresses of
\* s's family, else -1
Offset(a, s) ==
    LET n == Len(s.limbs)
    IN  IF a.family # s.family THEN -1
        ELSE IF n = 1 THEN a.limbs[1] - s.limbs[1]
        ELSE IF /\ \A k \in 1..(n - 2) : a.limbs[k] = s.limbs[k]
                /\ a.limbs[n - 1] - s.limbs[n - 1] \in { 0, 1 }
                /\ (a.limbs[n - 1] - s.limbs[n - 1]) * 65536
                       + a.limbs[n] - s.limbs[n] >= 0
             THEN (a.limbs[n - 1] - s.limbs[n - 1]) * 65536
                      + a.limbs[n] - s.limbs[n]
             ELSE -1

\* s and the cnt - 1 addresses after it exist in s's family (cnt <= 65536)
HasRoom(s, cnt) ==
    LET n == Len(s.limbs)
    IN  \/ \E k \in 1..(n - 1) : s.limbs[k] < 65535
        \/ 65535 - s.limbs[n] >= cnt - 1

\* the number of pairs enumerated before (i, j), i < j, among n records
PairRank(i, j, n) ==
    Cardinality({ ab \in (1..n) \X (1..n) :
                    /\ ab[1] < ab[2]
                    /\ \/ ab[1] < i
                       \/ ab[1] = i /\ ab[2] < j })

\* the document of node name holds the point-to-point statement
HasPtpLine(name, addr, interface) ==
    \E q \in DOMAIN configs[name] :
        LET l == configs[name][q]
        IN  /\ l.kind = "add"
            /\ DOMAIN l.args = { "address", "prefix", "interface" }
            /\ l.args.address = addr
            /\ l.args.interface = interface

\* the link pairs are all (i, j), i < j, row by row, and the k-th pair holds
\* the addresses at offsets 2k and 2k+1 from the start address
LinkPairsExact ==
    LET n == Len(records)
        s == opts.ptp_start_ip
    IN  /\ Len(interfaces) = n * (n - 1)
        /\ Len(interfaces) \div 2 = (n * (n - 1)) \div 2
        /\ \A i, j \in 1..n :
              i < j =>
                 LET k == PairRank(i, j, n)
                 IN  /\ interfaces[2 * k + 1] = i
                     /\ interfaces[2 * k + 2] = j
                     /\ Offset(ptp_addresses[2 * k + 1], s) = 2 * k
                     /\ Offset(ptp_addresses[2 * k + 2], s) = 2 * k + 1
                     /\ HasPtpLine(records[i].name, ptp_addresses[2 * k + 1],
                                   records[j].interface)
                     /\ HasPtpLine(records[j].name, ptp_addresses[2 * k + 2],
                                   records[i].interface)
        /\ \A m \in 1..Len(interfaces) : Offset(ptp_addresses[m], s) = m - 1

\* C2: for every start address s and N records, once GenConfig (OSPF and
\* EVPN on) has allocated the link addresses, the pairs are all (i, j),
\* i < j, in row order, N(N-1)/2 of them, and the k-th pair holds s+2k and
\* s+2k+1.
C2_AnyStartAddress == (Passed("addresses") /\ FlagsOn) => LinkPairsExact

\* the same, for a start address s with s + N(N-1) - 1 not above the largest
\* address of its family
C2_LinkPairsContiguous ==
    ( /\ Passed("addresses")
      /\ HasRoom(opts.ptp_start_ip, Len(records) * (Len(records) - 1)) )
        => LinkPairsExact

\* three or more records have been paired and addressed without overflow
C2_ThreePaired ==
    /\ Passed("addresses")
    /\ Len(records) >= 3
    /\ Len(ptp_addresses) = Len(records) * (Len(records) - 1)
    /\ HasRoom(opts.ptp_start_ip, Len(ptp_addresses))

--------------------------------------------------------------------------

IsAdd(l) == l.kind = "add"
IsPeerLine(l) == IsAdd(l) /\ "endpoint_port" \in DOMAIN l.args
IsInterfaceLine(l) == IsAdd(l) /\ "listen_port" \in DOMAIN l.args

\* X's document holds a peer entry named Y with Y's endpoint and public key
\* whose endpoint-port is the map entry (Y, X) and the listen-port of an
\* interface that Y's document adds under X's interface name
PeerEntryMatches(X, Y) ==
    LET key == << Y.name, X.name >>
    IN  /\ key \in DOMAIN port_assignations
        /\ \E q \in DOMAIN configs[X.name] :
              LET l == configs[X.name][q]
              IN  /\ IsPeerLine(l)
                  /\ l.args.name = Y.name
                  /\ l.args.endpoint_address = Unwrap(Y.endpoint)
                  /\ l.args.public_key = Pubkey(Unwrap(Y.privkey))
                  /\ l.args.endpoint_port = port_assignations[key]
                  /\ \E h \in DOMAIN configs[Y.name] :
                        LET w == configs[Y.name][h]
                        IN  /\ IsInterfaceLine(w)
                            /\ w.args.name = X.interface
                            /\ w.args.listen_port = l.args.endpoint_port

AllPeerEntriesMatch ==
    \A x, y \in DOMAIN records :
       records[x].name # records[y].name
          => PeerEntryMatches(records[x], records[y])

LookupNeverMisses == ~(outcome.kind = "panic" /\ outcome.error = "unwrap")

\* C3 as claimed (OSPF and EVPN on): once the peer entries are composed, for
\* every two records
\* X, Y of different nodes, X's peer entry for Y carries Y's endpoint and
\* public key and the listen-port of the interface Y's document adds for X,
\* which is the map entry (Y, X); and the lookup of (Y, X) never misses.
C3_PeerPortsMatch ==
    /\ LookupNeverMisses
    /\ (Passed("peers") /\ FlagsOn) => AllPeerEntriesMatch

\* C3 amended: the same, for record sets whose names are pairwise distinct
\* (two records of one name share a document and one map entry per peer).
C3_PeerPortsMatchUniqueNames ==
    /\ LookupNeverMisses
    /\ (Passed("peers") /\ UniqueNames(records)) => AllPeerEntriesMatch

\* a successful run over three uniquely named nodes in which some node uses a
\* port for a peer that differs from the port the peer uses for it
C3_AsymmetricPorts ==
    /\ GenOk /\ FlagsOn
    /\ UniqueNames(records)
    /\ Len(records) >= 3
    /\ \E k \in DOMAIN port_assignations :
          port_assignations[k] # port_assignations[<< k[2], k[1] >>]

--------------------------------------------------------------------------

\* the menu of the section that line p belongs to ("" before any menu)
RECURSIVE MenuAt(_, _)
MenuAt(d, p) ==
    IF p = 0 THEN ""
    ELSE IF d[p].kind = "menu" THEN d[p].menu
    ELSE MenuAt(d, p - 1)

\* line p's own section holds a remove statement before line p
RemoveInSection(d, p) ==
    \E q \in 1..(p - 1) :
       /\ d[q].kind = "remove"
       /\ \A h \in q..p : d[h].kind # "menu"

\* C4 as claimed (OSPF and EVPN on): in every document, every add statement
\* is preceded, within its own section, by a remove-by-tag statement.
C4_RemoveInEverySection ==
    FlagsOn =>
       \A name \in DOMAIN configs :
          \A p \in DOMAIN configs[name] :
             IsAdd(configs[name][p]) => RemoveInSection(configs[name], p)

\* C4 amended: in the documents a run ends with, every add statement is
\* preceded by a remove-by-tag statement issued under the same menu, and the
\* sections with an add statement and no remove statement of their own are
\* /ip address sections (the VLAN and anycast addresses, after the loopback
\* section).
C4_RemoveUnderSameMenu ==
    GenDone =>
       \A name \in DOMAIN configs :
          LET d == configs[name]
              menus == [p \in DOMAIN d |-> MenuAt(d, p)]
          IN  \A p \in DOMAIN d :
                 IsAdd(d[p]) =>
                    /\ \E q \in 1..(p - 1) :
                          d[q].kind = "remove" /\ menus[q] = menus[p]
                    /\ ~RemoveInSection(d, p) => menus[p] = "/ip address"

\* a finished document with OSPF, EVPN and anycast on whose last /ip address
\* section adds an address without a remove statement
C4_AllStagesComposed ==
    /\ GenOk
    /\ opts.ospf /\ opts.evpn
    /\ IsSome(opts.vlans) /\ IsSome(opts.anycast_addresses)
    /\ \E name \in DOMAIN configs :
          LET d == configs[name]
          IN  /\ IsAdd(d[Len(d)])
              /\ MenuAt(d, Len(d)) = "/ip address"
              /\ ~RemoveInSection(d, Len(d))

--------------------------------------------------------------------------

\* C5 as claimed: when GenConfig (OSPF and EVPN on) completes on a record
\* set in which every record has a private key, Check succeeds on the same
\* record set.
C5_GenOkImpliesCheckOk ==
    (GenOk /\ FlagsOn /\ AllKeys(file))
        => CheckRun(file, overflow_checks).outcome.kind = "Ok"

\* C5 amended: no step of GenConfig changes what Check returns on the record
\* set (its verdict and node count): generation leaves the file as it was.
C5_GenerationKeepsVerdict ==
    [][ command = "GenConfig"
           => /\ file' = file
              /\ CheckRun(file', overflow_checks')
                    = CheckRun(file, overflow_checks) ]_vars

\* GenConfig has completed on a record set with all keys that Check accepts
C5_RoundTripOk ==
    /\ GenOk /\ FlagsOn
    /\ AllKeys(file)
    /\ Len(file) >= 2
    /\ CheckRun(file, overflow_checks).outcome.kind = "Ok"

--------------------------------------------------------------------------

CheckDone == command = "Check" /\ pc = "done"

\* the record Check stopped at, when it failed
Failing == chk_i - 1

BothPorts(r) == IsSome(r.port_min) /\ IsSome(r.port_max)

\* the verdict of the port check on 16-bit values and N records, as claimed
ClaimedPortVerdict(port_min, port_max, N) ==
    IF port_max < port_min THEN "InvalidPortRange"
    ELSE IF port_max - port_min + 1 < N THEN "InsufficientPorts"
    ELSE "pass"

ClaimedVerdictOf(r) ==
    ClaimedPortVerdict(Unwrap(r.port_min), Unwrap(r.port_max), Len(file))

\* C6: when Check ends, every record it accepted that has both ports passes
\* the claimed port check, and a record with both ports at whose port or
\* netmask check the run stopped fails with InvalidPortRange when
\* port_max < port_min, with InsufficientPorts when the range
\* port_max - port_min + 1 is below the number of records, and otherwise
\* passes the port check (the run stops at its netmask check).
C6_PortCheckExact ==
    CheckDone =>
       /\ outcome.kind = "Ok" =>
             \A i \in DOMAIN file :
                BothPorts(file[i]) => ClaimedVerdictOf(file[i]) = "pass"
       /\ ( /\ outcome.kind # "Ok"
            /\ BothPorts(file[Failing])
            /\ outcome.error \notin { "DuplicateField", "MissingPrivateKey" } )
          => IF ClaimedVerdictOf(file[Failing]) = "pass"
             THEN outcome.error = "MissingPrefixLength"
             ELSE outcome.kind = "Err"
                  /\ outcome.error = ClaimedVerdictOf(file[Failing])

--------------------------------------------------------------------------

\* records i and j of the file hold the same value in the k-th checked field
Shares(i, j, k) ==
    CASE k = 1 -> file[i].name = file[j].name
      [] k = 2 -> file[i].interface = file[j].interface
      [] k = 3 -> file[i].loopback = file[j].loopback
      [] k = 4 -> /\ IsSome(file[i].privkey)
                  /\ file[i].privkey = file[j].privkey

SharesEarlier(j) == \E i \in 1..(j - 1), k \in 1..4 : Shares(i, j, k)
SomeShared == \E j \in DOMAIN file : SharesEarlier(j)

\* the later record of the first pair that shares a value, the first field
\* it shares and the first record that holds that value
FirstLater == CHOOSE j \in DOMAIN file :
                 SharesEarlier(j) /\ \A h \in 1..(j - 1) : ~SharesEarlier(h)
FirstField(j) == CHOOSE k \in 1..4 :
                    /\ \E i \in 1..(j - 1) : Shares(i, j, k)
                    /\ \A g \in 1..(k - 1) : \A i \in 1..(j - 1) : ~Shares(i, j, g)
FirstHolder(j, k) == CHOOSE i \in 1..(j - 1) :
                        Shares(i, j, k) /\ \A h \in 1..(i - 1) : ~Shares(h, j, k)

\* the record names a DuplicateField message carries
NamesIn(msg) == { msg.name }

\* C7 as claimed, where the scan comes to the uniqueness check of the later
\* record: when two records share a value, Check fails with a DuplicateField
\* failure raised at the later record that names the field, the line of the
\* first record with the value, and both records' names.
C7_DuplicateNamesBoth ==
    ( /\ CheckDone /\ SomeShared
      /\ outcome.kind # "Ok" /\ Failing = FirstLater
      /\ IsSome(file[FirstLater].privkey) ) =>
       LET j == FirstLater
           k == FirstField(j)
           i == FirstHolder(j, k)
       IN  /\ outcome.error = "DuplicateField"
           /\ outcome.msg.found_on = j + 1
           /\ outcome.msg.field = FieldNames[k]
           /\ outcome.msg.line = i + 1
           /\ { file[i].name, file[j].name } \subseteq NamesIn(outcome.msg)

\* C7 amended: when two records share a value Check fails, no later than at
\* the later record; if it stops there and that record has a private key the
\* failure is DuplicateField; and a DuplicateField failure carries exactly the
\* first shared field, the line of the first record with the value, and the
\* name and line of the later record.
C7_DuplicateReport ==
    CheckDone =>
       /\ SomeShared => outcome.kind # "Ok" /\ Failing <= FirstLater
       /\ (SomeShared /\ outcome.kind # "Ok" /\ Failing = FirstLater
             /\ IsSome(file[FirstLater].privkey))
          => outcome.error = "DuplicateField"
       /\ outcome.error = "DuplicateField" =>
             /\ SharesEarlier(Failing)
             /\ LET k == FirstField(Failing)
                IN  outcome.msg = [ line |-> FirstHolder(Failing, k) + 1,
                                    name |-> file[Failing].name,
                                    field |-> FieldNames[k],
                                    found_on |-> Failing + 1 ]

\* the third record repeats a value of the second, whose name differs
C7_DuplicateAtThird ==
    /\ CheckDone
    /\ outcome.error = "DuplicateField"
    /\ outcome.msg.line = 3
    /\ outcome.msg.found_on = 4
    /\ file[2].name # file[3].name

--------------------------------------------------------------------------

NoKey(j) == file[j].privkey = None

PortFailure(j) ==
    CheckPorts(file[j], j + 1, CountAsU16(file), U16Max, overflow_checks).err

NetmaskFails(j) ==
    /\ IsSome(file[j].ifs_ips)
    /\ \E k \in DOMAIN Unwrap(file[j].ifs_ips) :
          ~ContainsSlash(Unwrap(file[j].ifs_ips)[k])

\* the failure of record j alone ("" when it passes), with the missing key
\* looked at before or after uniqueness
Expected(j, key_first) ==
    LET rest == IF PortFailure(j) # NoErr THEN PortFailure(j).error
                ELSE IF NetmaskFails(j) THEN "MissingPrefixLength"
                ELSE ""
    IN  IF key_first
        THEN IF NoKey(j) THEN "MissingPrivateKey"
             ELSE IF SharesEarlier(j) THEN "DuplicateField"
             ELSE rest
        ELSE IF SharesEarlier(j) THEN "DuplicateField"
             ELSE IF NoKey(j) THEN "MissingPrivateKey"
             ELSE rest

\* the line a failure reports
ReportedLine ==
    IF outcome.kind # "Err" THEN Failing + 1
    ELSE IF outcome.error = "DuplicateField" THEN outcome.msg.found_on
    ELSE outcome.msg.line

\* Check reports the failure of the first record that has one, choosing
\* among that record's failures in the given order
FirstFailure(key_first) ==
    CheckDone =>
       /\ outcome.kind = "Ok" => \A j \in DOMAIN file : Expected(j, key_first) = ""
       /\ outcome.kind # "Ok" =>
             /\ Failing \in DOMAIN file
             /\ \A j \in 1..(Failing - 1) : Expected(j, key_first) = ""
             /\ outcome.error = Expected(Failing, key_first)
             /\ ReportedLine = Failing + 1

\* C8 as claimed: the first failure in file order is reported, and within a
\* record uniqueness comes before the missing private key, then the port
\* check, then the netmask.
C8_UniquenessBeforeKey == FirstFailure(FALSE)

\* C8 amended: the first failure in file order is reported, and within a
\* record the missing private key comes before uniqueness, then the port
\* check, then the netmask.
C8_KeyBeforeUniqueness == FirstFailure(TRUE)

\* a record that repeats an earlier name and has no key was reported
C8_RepeatedNameNoKey ==
    /\ CheckDone
    /\ outcome.kind = "Err"
    /\ Failing \in DOMAIN file
    /\ NoKey(Failing)
    /\ \E i \in 1..(Failing - 1) : Shares(i, Failing, 1)
    /\ outcome.error = "MissingPrivateKey"

--------------------------------------------------------------------------

AllDocuments ==
    [ kind |-> "documents",
      docs |-> { [node |-> n, config |-> configs[n]] : n \in DOMAIN configs } ]

\* C9: GenConfig prints nothing before every stage has completed for every
\* node, and nothing at all in a run that fails; what it prints at the end
\* is every node's document.
C9_AllOrNothing ==
    command = "GenConfig" =>
       /\ stdout # << >> => GenOk /\ stdout = << AllDocuments >>
       /\ (pc = "done" /\ outcome.kind # "Ok") => stdout = << >>
       /\ GenOk => stdout = << AllDocuments >>

\* a run that failed in the last stage, on the anycast lists, with every
\* node's statements of the earlier stages composed, and printed nothing
C9_FailsAfterComposing ==
    /\ GenDone /\ FlagsOn
    /\ outcome.error = "MismatchedListLengths"
    /\ DOMAIN configs # {}
    /\ \A n \in DOMAIN configs : Len(configs[n]) > 1
    /\ stdout = << >>

--------------------------------------------------------------------------

\* GenConfig has begun the stage (and may have stopped in it)
Reached(stage) == command = "GenConfig" /\ StageIdx(Where) >= StageIdx(stage)

AbortedIn(stage) ==
    /\ outcome.kind = "Err"
    /\ outcome.error = "MissingVlanConfig"
    /\ outcome.at = stage

EvpnAborts ==
    ( /\ opts.evpn
      /\ Reached("evpn")
      /\ \E i \in DOMAIN records :
            records[i].vlan = None \/ records[i].vlan_ifs = None )
    => AbortedIn("evpn")

\* C10 as claimed (OSPF and EVPN on): a run that has ended aborted in the
\* EVPN stage when vlan or vlan_ifs was absent on a record, and in the VLAN
\* stages when vlan or ifs_ips was absent on a record.
C10_AbsentFieldAborts ==
    (GenDone /\ FlagsOn) =>
       /\ EvpnAborts
       /\ ( /\ Reached("vlans")
            /\ \E i \in DOMAIN records :
                  records[i].vlan = None \/ records[i].ifs_ips = None )
          => AbortedIn("vlans")

\* C10 amended: a run that has ended aborted in the EVPN stage when vlan or
\* vlan_ifs was absent on a record and in the VLAN sub-interface stage when
\* vlan was absent; when every record has vlan the VLAN stages do not fail,
\* whether ifs_ips is present or not.
C10_VlanFieldsAbort ==
    GenDone =>
       /\ EvpnAborts
       /\ (Reached("vlans") /\ \E i \in DOMAIN records : records[i].vlan = None)
          => /\ AbortedIn("vlans")
             /\ outcome.msg.context = "vlan interface error"
       /\ (Reached("vlans") /\ \A i \in DOMAIN records : IsSome(records[i].vlan))
          => Passed("vlans")

\* a run completed although a record has no ifs_ips
C10_SkippedIfsIps ==
    /\ GenOk /\ FlagsOn
    /\ \E i \in DOMAIN records : records[i].ifs_ips = None

--------------------------------------------------------------------------

\* a and b are the two addresses of one /31 (/127): the same family, the
\* same bits but for the lowest one, which differs
SameSubnet(a, b) ==
    LET n == Len(a.limbs)
    IN  /\ a.family = b.family
        /\ \A k \in 1..(n - 1) : a.limbs[k] = b.limbs[k]
        /\ a.limbs[n] \div 2 = b.limbs[n] \div 2
        /\ a.limbs[n] # b.limbs[n]

\* the addresses of the two ends of every link pair form one subnet, and no
\* address is used for two link ends
PairsShareSubnet ==
    /\ \A k \in 1..(Len(interfaces) \div 2) :
          SameSubnet(ptp_addresses[2 * k - 1], ptp_addresses[2 * k])
    /\ \A m, n \in 1..Len(interfaces) :
          m # n => ptp_addresses[m] # ptp_addresses[n]

\* C11: for every start address (here: every one with room for the
\* N(N-1) addresses after it, so that the counter does not overflow) and
\* every N, once GenConfig (OSPF and EVPN on) has allocated the link
\* addresses, the two addresses of every link pair differ only in their
\* lowest bit and no address is given to more than one link end.
C11_PairsInOneSubnet ==
    ( /\ Passed("addresses") /\ FlagsOn
      /\ HasRoom(opts.ptp_start_ip, Len(interfaces)) )
        => PairsShareSubnet

\* the same holds when the start address is even (the first address of a
\* /31 or /127)
C11_EvenStartPairs ==
    ( /\ Passed("addresses") /\ FlagsOn
      /\ HasRoom(opts.ptp_start_ip, Len(interfaces))
      /\ opts.ptp_start_ip.limbs[Len(opts.ptp_start_ip.limbs)] % 2 = 0 )
        => PairsShareSubnet

--------------------------------------------------------------------------

\* the prefix length of a host address (loopback) and of the address of a
\* link end, by address family
HostPrefix(ip) == IF ip.family = 4 THEN 32 ELSE 128
LinkPrefix(ip) == IF ip.family = 4 THEN 31 ELSE 127

\* the statements of document d that add an address with a prefix length:
\* the loopback (interface lo) and the point-to-point addresses
PrefixLines(d) == { q \in DOMAIN d : IsAdd(d[q]) /\ "prefix" \in DOMAIN d[q].args }

\* every loopback and point-to-point statement has the prefix length of its
\* address family
PrefixFollowsFamily ==
    \A name \in DOMAIN configs :
       \A q \in PrefixLines(configs[name]) :
          LET a == configs[name][q].args
          IN  a.prefix = IF a.interface = "lo" THEN HostPrefix(a.address)
                         ELSE LinkPrefix(a.address)

\* C12: once GenConfig (OSPF and EVPN on) has written the address section,
\* a loopback is added as /32 when it is IPv4 and as /128 when it is IPv6,
\* and a link address as /31 when it is IPv4 and as /127 when it is IPv6
\* (read on runs whose address counter does not overflow).
C12_PrefixFollowsFamily ==
    ( /\ Passed("addresses") /\ FlagsOn
      /\ HasRoom(opts.ptp_start_ip, Len(interfaces)) )
        => PrefixFollowsFamily

\* the same holds when every loopback and the start address are IPv4
C12_Ipv4Prefixes ==
    ( /\ Passed("addresses") /\ FlagsOn
      /\ HasRoom(opts.ptp_start_ip, Len(interfaces))
      /\ opts.ptp_start_ip.family = 4
      /\ \A i \in DOMAIN records : records[i].loopback.family = 4 )
        => PrefixFollowsFamily

--------------------------------------------------------------------------

\* Check accepts the record set
Accepted == CheckRun(file, overflow_checks).outcome.kind = "Ok"

\* the listen ports of the tunnel interfaces in node name's document
ListenLines(name) ==
    { q \in DOMAIN configs[name] : IsInterfaceLine(configs[name][q]) }

\* every listen port of a server with port_min and port_max lies within
\* [port_min, port_max]
PortsWithinBudget ==
    \A i \in DOMAIN records :
       BothPorts(records[i]) =>
          \A q \in ListenLines(records[i].name) :
             LET port == configs[records[i].name][q].args.listen_port
             IN  /\ Unwrap(records[i].port_min) <= port
                 /\ port <= Unwrap(records[i].port_max)

\* the listen ports of one node's tunnel interfaces are pairwise distinct
PortsDistinct ==
    \A name \in DOMAIN configs :
       \A q, h \in ListenLines(name) :
          q # h => configs[name][q].args.listen_port
                      # configs[name][h].args.listen_port

\* the port counter has gone past 65535: the run died of the overflow in
\* the server side loop, or a listen port below port_min was assigned after
\* the counter wrapped
CounterOverflowed ==
    \/ /\ pc = "done" /\ outcome.kind = "panic"
       /\ outcome.error = "overflow" /\ outcome.at = "wireguard"
    \/ /\ Passed("wireguard")
       /\ \E i \in DOMAIN records :
             \E q \in ListenLines(records[i].name) :
                configs[records[i].name][q].args.listen_port
                   < Unwrap(records[i].port_min)

\* C13: on every record set that Check accepts, in a GenConfig run (OSPF
\* and EVPN on) the port counter never goes past 65535, also for servers
\* without port_max, and once the server side is written every listen port
\* of a server with port_min and port_max lies within [port_min, port_max]
\* and the listen ports of one node are pairwise distinct.
C13_PortBudgetAgreed ==
    (command = "GenConfig" /\ FlagsOn /\ Accepted) =>
       /\ ~CounterOverflowed
       /\ Passed("wireguard") => (PortsWithinBudget /\ PortsDistinct)

\* the same holds when every server has both port_min and port_max
C13_BoundedServers ==
    ( /\ command = "GenConfig" /\ FlagsOn /\ Accepted
      /\ \A i \in DOMAIN file : BothPorts(file[i]) ) =>
       /\ ~CounterOverflowed
       /\ Passed("wireguard") => (PortsWithinBudget /\ PortsDistinct)

\* the range checks pass also without port_max: once the server side is
\* written on an accepted record set, the ports are within the budgets
\* and distinct
C13_AssignedWithinBudget ==
    (Passed("wireguard") /\ FlagsOn /\ Accepted) =>
       (PortsWithinBudget /\ PortsDistinct)

====
